---- MODULE Spec2Model ----
(***************************************************************************)
(* Model of the lexical-playground customisation layer:                    *)
(*   - nodes/ImageNode.tsx       the ImageNode class (construction, clone, *)
(*                               JSON and DOM export/import, setters,      *)
(*                               decorate);                                *)
(*   - nodes/ImageComponent.tsx  the resize flag, its 200 ms timers and    *)
(*                               the click command handler;                *)
(*   - App.tsx / OnChangePlugin  the localStorage persistence of the       *)
(*                               serialized editor state and of the HTML.  *)
(*                                                                         *)
(* Encoding of JavaScript values:                                          *)
(*   - an optional value (T | undefined) is a sequence of length <= 1:     *)
(*     Undefined is <<>> and a present value v is <<v>>;                   *)
(*   - the string 'inherit' of a width or height is the number Inherit     *)
(*     (pixel sizes are >= 0, so the two never collide);                   *)
(*   - a string held in localStorage is a record [kind, body], so that     *)
(*     null, '', 'undefined', a JSON document and an HTML document are     *)
(*     values of one type.                                                 *)
(***************************************************************************)
EXTENDS Integers, Sequences, FiniteSets, TLC

VARIABLES
  \* ---- ImageNode.tsx
  node,            \* the ImageNode instance held by the editor state
  serialized,      \* result of exportJSON() on the current node version
  element,         \* result of exportDOM() on the current node version
  rendered,        \* props of the element returned by decorate()
  \* ---- ImageComponent.tsx
  isResizing,      \* useState(false)
  gesture,         \* a resize gesture is between onResizeStart and onResizeEnd
  timers,          \* number of pending setTimeout(..., 200) callbacks
  isEditable,      \* useLexicalEditable()
  selection,       \* the editor selection: its kind and, for a node selection, its keys
  click,           \* last click command dispatched and what onClick returned
  \* ---- App.tsx
  page,            \* "closed" | "open": the module of App.tsx has been evaluated
  storageKey,      \* params.get('storageKey')
  htmlStorageKey,  \* params.get('htmlStorageKey')
  dataFromStorage, \* module-level let, given to the composer as editorState
  localStorage,    \* window.localStorage: key -> stored string (or null)
  editorState,     \* the editor's current state
  listeners,       \* update listeners registered by OnChangePlugin
  mounted,         \* OnChangePlugin is mounted and its effect has run
  callbacks,       \* which render of App made the onHtmlChange/onStateChange props
  captured,        \* the callbacks closed over by the effect that last ran
  invoked          \* callbacks invoked, in order, during the last editor update

nodeVars == <<node, serialized, element, rendered>>
resizeVars == <<isResizing, gesture, timers, isEditable, selection, click>>
storageVars == <<page, storageKey, htmlStorageKey, dataFromStorage,
                 localStorage, editorState, listeners,
                 mounted, callbacks, captured, invoked>>
vars == <<nodeVars, resizeVars, storageVars>>

----------------------------------------------------------------------------
(* Bounds *)

MaxDim == 1          \* widths and heights range over 0..MaxDim and 'inherit'
MaxTimers == 2       \* pending 200 ms timers
MaxContent == 2      \* editor contents are 0..MaxContent, 0 the empty root
MaxRenders == 2      \* re-renders of App during one session

----------------------------------------------------------------------------
(* JavaScript values *)

Undefined == <<>>
Some(v) == <<v>>
Opt(S) == {Undefined} \cup {Some(v) : v \in S}

Inherit == -1
DefaultMaxWidth == 500

\* x || '' for an optional string
OrEmpty(x) == IF x = Undefined \/ x = Some("") THEN "" ELSE x[1]
\* x || 'inherit' for an optional width or height (0 is falsy)
OrInherit(x) == IF x = Undefined \/ x = Some(0) THEN Inherit ELSE x[1]
\* x || false for an optional boolean
OrFalse(x) == x = Some(TRUE)
\* x.toString() for a width or height
DimToString(x) == IF x = Inherit THEN "inherit" ELSE ToString(x)

----------------------------------------------------------------------------
(* ImageNode.tsx *)

GeneratedKey == "auto"     \* the key the framework gives a node built without one
EmptyCaption == 0          \* state of a nested editor fresh from createEditor()

\* constructor
ImageNode(src, altText, maxWidth, width, height, showCaption, imgRounded, imgZoomable, caption, captionsEnabled, key, title, className) ==
  [ key            |-> IF key = Undefined THEN GeneratedKey ELSE key[1],
    src            |-> src,
    altText        |-> altText,
    maxWidth       |-> maxWidth,
    width          |-> OrInherit(width),
    height         |-> OrInherit(height),
    showCaption    |-> OrFalse(showCaption),
    imgRounded     |-> OrFalse(imgRounded),
    imgZoomable    |-> OrFalse(imgZoomable),
    caption        |-> IF caption = Undefined THEN EmptyCaption ELSE caption[1],
    captionsEnabled |-> (captionsEnabled = Some(TRUE) \/ captionsEnabled = Undefined),
    title          |-> title,
    className      |-> className ]

\* $createImageNode: maxWidth defaults to 500
CreateImageNode(p) ==
  ImageNode(p.src, p.altText,
            IF p.maxWidth = Undefined THEN DefaultMaxWidth ELSE p.maxWidth[1],
            p.width, p.height, p.showCaption, p.imgRounded, p.imgZoomable,
            p.caption, p.captionsEnabled, p.key, p.title, p.className)

\* static clone
clone(n) ==
  ImageNode(n.src, n.altText, n.maxWidth, Some(n.width), Some(n.height),
            Some(n.showCaption), Some(n.imgRounded), Some(n.imgZoomable),
            Some(n.caption), Some(n.captionsEnabled), Some(n.key),
            n.title, n.className)

\* exportJSON
exportJSON(n) ==
  [ type        |-> "image",
    version     |-> 1,
    altText     |-> n.altText,
    caption     |-> n.caption,
    height      |-> IF n.height = Inherit THEN 0 ELSE n.height,
    maxWidth    |-> n.maxWidth,
    showCaption |-> n.showCaption,
    imgRounded  |-> n.imgRounded,
    imgZoomable |-> n.imgZoomable,
    src         |-> n.src,
    width       |-> IF n.width = Inherit THEN 0 ELSE n.width,
    title       |-> OrEmpty(n.title),
    className   |-> OrEmpty(n.className) ]

\* updateFromJSON: the nested editor takes the serialized caption unless empty
updateFromJSON(n, s) ==
  [n EXCEPT !.caption = IF s.caption # EmptyCaption THEN s.caption ELSE @]

\* importJSON that forgets to pass imgZoomable on
importJSONNoZoomable(s) ==
  updateFromJSON(
    CreateImageNode([ altText |-> s.altText, height |-> Some(s.height),
                      maxWidth |-> Some(s.maxWidth),
                      showCaption |-> Some(s.showCaption),
                      imgRounded |-> Some(s.imgRounded),
                      imgZoomable |-> Undefined,
                      src |-> s.src, width |-> Some(s.width),
                      title |-> Some(s.title), className |-> Some(s.className),
                      caption |-> Undefined, captionsEnabled |-> Undefined,
                      key |-> Undefined ]),
    s)

\* static importJSON
importJSON(s) ==
  updateFromJSON(
    CreateImageNode([ altText |-> s.altText, height |-> Some(s.height),
                      maxWidth |-> Some(s.maxWidth),
                      showCaption |-> Some(s.showCaption),
                      imgRounded |-> Some(s.imgRounded),
                      imgZoomable |-> Some(s.imgZoomable),
                      src |-> s.src, width |-> Some(s.width),
                      title |-> Some(s.title), className |-> Some(s.className),
                      caption |-> Undefined, captionsEnabled |-> Undefined,
                      key |-> Undefined ]),
    s)

\* exportDOM that derives data-zoomable from the rounding flag
exportDOMZoomFromRounded(n) ==
  [ tag          |-> "img",
    src          |-> n.src,
    alt          |-> n.altText,
    width        |-> DimToString(n.width),
    height       |-> DimToString(n.height),
    title        |-> OrEmpty(n.title),
    class        |-> OrEmpty(n.className),
    dataRounded  |-> IF n.imgRounded THEN "1" ELSE "0",
    dataZoomable |-> IF n.imgRounded THEN "1" ELSE "0" ]

\* exportDOM: the attributes of the img element
exportDOM(n) ==
  [ tag          |-> "img",
    src          |-> n.src,
    alt          |-> n.altText,
    width        |-> DimToString(n.width),
    height       |-> DimToString(n.height),
    title        |-> OrEmpty(n.title),
    class        |-> OrEmpty(n.className),
    dataRounded  |-> IF n.imgRounded THEN "1" ELSE "0",
    dataZoomable |-> IF n.imgZoomable THEN "1" ELSE "0" ]

\* decorate that passes the zoom flag as the rounding prop
decorateRoundedFromZoomable(n) ==
  [ src            |-> n.src,
    altText        |-> n.altText,
    width          |-> n.width,
    height         |-> n.height,
    maxWidth       |-> n.maxWidth,
    nodeKey        |-> n.key,
    showCaption    |-> n.showCaption,
    imgRounded     |-> n.imgZoomable,
    imgZoomable    |-> n.imgZoomable,
    caption        |-> n.caption,
    captionsEnabled |-> n.captionsEnabled,
    title          |-> n.title,
    className      |-> n.className,
    resizable      |-> TRUE ]

\* decorate: the props of the ImageComponent element
decorate(n) ==
  [ src            |-> n.src,
    altText        |-> n.altText,
    width          |-> n.width,
    height         |-> n.height,
    maxWidth       |-> n.maxWidth,
    nodeKey        |-> n.key,
    showCaption    |-> n.showCaption,
    imgRounded     |-> n.imgRounded,
    imgZoomable    |-> n.imgZoomable,
    caption        |-> n.caption,
    captionsEnabled |-> n.captionsEnabled,
    title          |-> n.title,
    className      |-> n.className,
    resizable      |-> TRUE ]

\* getWritable(): the first write of an update works on a clone of the node
getWritable(n) == clone(n)

setWidthAndHeight(n, width, height) ==
  [getWritable(n) EXCEPT !.width = width, !.height = height]
setShowCaption(n, showCaption) ==
  [getWritable(n) EXCEPT !.showCaption = showCaption]
setImgRounded(n, imgRounded) ==
  [getWritable(n) EXCEPT !.imgRounded = imgRounded]
setImgZoomable(n, imgZoomable) ==
  [getWritable(n) EXCEPT !.imgZoomable = imgZoomable]

\* ---- inputs
Dims == {Inherit} \cup (0 .. MaxDim)
Payloads ==
  [ src : {"s.png"}, altText : {"alt"},
    width : Opt(0 .. MaxDim), height : Opt(0 .. MaxDim),
    maxWidth : Opt({300}),
    showCaption : Opt(BOOLEAN), imgRounded : Opt(BOOLEAN),
    imgZoomable : Opt(BOOLEAN), captionsEnabled : Opt(BOOLEAN),
    caption : Opt({1}), key : Opt({"k1"}),
    title : Opt({"", "t"}), className : Opt({"", "c"}) ]

DefaultPayload ==
  [ src |-> "s.png", altText |-> "alt", width |-> Undefined,
    height |-> Undefined, maxWidth |-> Undefined, showCaption |-> Undefined,
    imgRounded |-> Undefined, imgZoomable |-> Undefined,
    captionsEnabled |-> Undefined, caption |-> Undefined, key |-> Some("k1"),
    title |-> Undefined, className |-> Undefined ]

----------------------------------------------------------------------------
(* ImageNode operations as steps.  serialized, element and rendered are     *)
(* outputs computed from the current node version: every write to the node *)
(* (which produces a new version through getWritable) drops them.          *)

NodeInit ==
  /\ node \in {CreateImageNode(p) : p \in Payloads}
  /\ serialized = Undefined
  /\ element = Undefined
  /\ rendered = Undefined

NodeIdle ==
  /\ node = CreateImageNode(DefaultPayload)
  /\ serialized = Undefined
  /\ element = Undefined
  /\ rendered = Undefined

NewVersion(n) ==
  /\ node' = n
  /\ serialized' = Undefined
  /\ element' = Undefined
  /\ rendered' = Undefined

SetWidthAndHeight(width, height) ==
  /\ NewVersion(setWidthAndHeight(node, width, height))
  /\ UNCHANGED <<resizeVars, storageVars>>

SetShowCaption(showCaption) ==
  /\ NewVersion(setShowCaption(node, showCaption))
  /\ UNCHANGED <<resizeVars, storageVars>>

SetImgRounded(imgRounded) ==
  /\ NewVersion(setImgRounded(node, imgRounded))
  /\ UNCHANGED <<resizeVars, storageVars>>

SetImgZoomable(imgZoomable) ==
  /\ NewVersion(setImgZoomable(node, imgZoomable))
  /\ UNCHANGED <<resizeVars, storageVars>>

Clone ==
  /\ NewVersion(clone(node))
  /\ UNCHANGED <<resizeVars, storageVars>>

ExportJSON ==
  /\ serialized' = Some(exportJSON(node))
  /\ UNCHANGED <<node, element, rendered, resizeVars, storageVars>>

ImportJSON ==
  /\ serialized # Undefined
  /\ NewVersion(importJSON(serialized[1]))
  /\ UNCHANGED <<resizeVars, storageVars>>

ExportDOM ==
  /\ element' = Some(exportDOM(node))
  /\ UNCHANGED <<node, serialized, rendered, resizeVars, storageVars>>

Decorate ==
  /\ rendered' = Some(decorate(node))
  /\ UNCHANGED <<node, serialized, element, resizeVars, storageVars>>

NextNode ==
  \/ \E width \in Dims, height \in Dims : SetWidthAndHeight(width, height)
  \/ \E b \in BOOLEAN : SetShowCaption(b)
  \/ \E b \in BOOLEAN : SetImgRounded(b)
  \/ \E b \in BOOLEAN : SetImgZoomable(b)
  \/ Clone
  \/ ExportJSON
  \/ ImportJSON
  \/ ExportDOM
  \/ Decorate

----------------------------------------------------------------------------
(* ImageComponent.tsx *)

OtherKey == "other"                 \* key of another decorator node
NodeKeys == {"k1", OtherKey}
Targets == {"image", "otherImg", "text"}   \* event.target; "image" is imageRef.current
Commands == {"CLICK_COMMAND", "RIGHT_CLICK_IMAGE_COMMAND"}
NoClick == [cmd |-> "none", target |-> "none", shiftKey |-> FALSE, returned |-> "none"]

Selections ==
  {[kind |-> "none", nodes |-> {}], [kind |-> "range", nodes |-> {}]}
    \cup {[kind |-> "node", nodes |-> S] : S \in SUBSET NodeKeys}

\* $isNodeSelection(selection)
IsNodeSelection(sel) == sel.kind = "node"
\* useLexicalNodeSelection(nodeKey): isSelected
isSelected == IsNodeSelection(selection) /\ node.key \in selection.nodes
\* useLexicalNodeSelection(nodeKey): setSelected
setSelected(sel, key, selected) ==
  LET base == IF IsNodeSelection(sel) THEN sel.nodes ELSE {}
  IN [kind |-> "node",
      nodes |-> IF selected THEN base \cup {key} ELSE base \ {key}]
\* useLexicalNodeSelection(nodeKey): clearSelection
clearSelection(sel) ==
  IF IsNodeSelection(sel) THEN [sel EXCEPT !.nodes = {}] ELSE sel

isFocused == (isSelected \/ isResizing) /\ isEditable
\* the ImageResizer is rendered: resizable && $isNodeSelection(selection) && isFocused
ResizerShown == decorate(node).resizable /\ IsNodeSelection(selection) /\ isFocused

\* onClick without the isResizing early return
onClickSelectionNoGuard(resizing, sel, key, ev) ==
  IF ev.target = "image"
  THEN IF ev.shiftKey
       THEN setSelected(sel, key, ~(IsNodeSelection(sel) /\ key \in sel.nodes))
       ELSE setSelected(clearSelection(sel), key, TRUE)
  ELSE sel

\* onClick: the selection after the handler, and what it returns
onClickSelection(resizing, sel, key, ev) ==
  IF resizing THEN sel
  ELSE IF ev.target = "image"
       THEN IF ev.shiftKey
            THEN setSelected(sel, key, ~(IsNodeSelection(sel) /\ key \in sel.nodes))
            ELSE setSelected(clearSelection(sel), key, TRUE)
       ELSE sel

onClickReturn(resizing, ev) ==
  IF resizing THEN TRUE
  ELSE ev.target = "image"

Idle == click.returned # "pending"   \* no command is being dispatched

ResizeInit ==
  /\ isResizing = FALSE
  /\ gesture = FALSE
  /\ timers = 0
  /\ isEditable = TRUE
  /\ selection = [kind |-> "none", nodes |-> {}]
  /\ click = NoClick

\* the resizer's pointer-down: onResizeStart
OnResizeStart ==
  /\ Idle
  /\ ResizerShown
  /\ ~gesture
  /\ isResizing' = TRUE
  /\ gesture' = TRUE
  /\ UNCHANGED <<timers, isEditable, selection, click, nodeVars, storageVars>>

\* the resizer's pointer-up: onResizeEnd(nextWidth, nextHeight)
OnResizeEnd(nextWidth, nextHeight) ==
  /\ Idle
  /\ gesture
  /\ timers < MaxTimers
  /\ timers' = timers + 1
  /\ gesture' = FALSE
  /\ NewVersion(setWidthAndHeight(node, nextWidth, nextHeight))
  /\ UNCHANGED <<isResizing, isEditable, selection, click, storageVars>>

\* a 200 ms timer of onResizeEnd expires: setIsResizing(false)
ResizeTimeout ==
  /\ Idle
  /\ timers > 0
  /\ timers' = timers - 1
  /\ isResizing' = FALSE
  /\ UNCHANGED <<gesture, isEditable, selection, click, nodeVars, storageVars>>

\* a click on the editor root: CLICK_COMMAND is dispatched
DispatchClick(target, shiftKey) ==
  /\ Idle
  /\ click' = [cmd |-> "CLICK_COMMAND", target |-> target,
               shiftKey |-> shiftKey, returned |-> "pending"]
  /\ UNCHANGED <<isResizing, gesture, timers, isEditable, selection,
                 nodeVars, storageVars>>

\* onRightClick: a contextmenu event on an IMG under a range selection
OnRightClick(target, shiftKey) ==
  /\ Idle
  /\ target \in {"image", "otherImg"}
  /\ selection.kind = "range"
  /\ click' = [cmd |-> "RIGHT_CLICK_IMAGE_COMMAND", target |-> target,
               shiftKey |-> shiftKey, returned |-> "pending"]
  /\ UNCHANGED <<isResizing, gesture, timers, isEditable, selection,
                 nodeVars, storageVars>>

\* the handler registered for both commands runs
OnClick ==
  /\ click.returned = "pending"
  /\ selection' = onClickSelection(isResizing, selection, node.key, click)
  /\ click' = [click EXCEPT !.returned =
                 IF onClickReturn(isResizing, click) THEN "true" ELSE "false"]
  /\ UNCHANGED <<isResizing, gesture, timers, isEditable, nodeVars, storageVars>>

\* the user moves the selection elsewhere in the editor
SelectionChange(sel) ==
  /\ Idle
  /\ selection' = sel
  /\ UNCHANGED <<isResizing, gesture, timers, isEditable, click,
                 nodeVars, storageVars>>

\* editor.setEditable
SetEditable(b) ==
  /\ Idle
  /\ isEditable' = b
  /\ UNCHANGED <<isResizing, gesture, timers, selection, click,
                 nodeVars, storageVars>>

NextResize ==
  \/ OnResizeStart
  \/ \E w \in Dims, h \in Dims : OnResizeEnd(w, h)
  \/ ResizeTimeout
  \/ \E t \in Targets, sh \in BOOLEAN : DispatchClick(t, sh)
  \/ \E t \in Targets, sh \in BOOLEAN : OnRightClick(t, sh)
  \/ OnClick
  \/ \E sel \in Selections : SelectionChange(sel)
  \/ \E b \in BOOLEAN : SetEditable(b)

----------------------------------------------------------------------------
(* App.tsx and OnChangePlugin *)

Null == <<>>                         \* params.get() of an absent parameter
ParamValues == Opt({"", "null", "k"})
StorageKeys == {"", "null", "k"}
\* JavaScript truthiness of a string | null
Truthy(x) == x # Null /\ x # Some("")
\* conversion of a getItem/setItem argument to a DOMString: String(null) = "null"
KeyString(x) == IF x = Null THEN "null" ELSE x[1]

\* strings held in localStorage; NullItem is what getItem returns for no entry
NullItem == [kind |-> "null", body |-> 0]
EmptyString == [kind |-> "empty", body |-> 0]
UndefinedString == [kind |-> "undefined", body |-> 0]

EditorStates == [content : 0 .. MaxContent, sel : 0 .. 1]
EmptyEditorState == [content |-> 0, sel |-> 0]

\* JSON.stringify(editorState.toJSON()): the node tree, without the selection
JSONstringify(es) == [kind |-> "json", body |-> es.content]
\* $generateHtmlFromNodes(editor): the children of the root, '' for an empty root
generateHtmlFromNodes(es) ==
  IF es.content = 0 THEN EmptyString ELSE [kind |-> "html", body |-> es.content]

getItem(ls, key) == ls[KeyString(key)]
setItem(ls, key, value) == [ls EXCEPT ![KeyString(key)] = value]

\* the read without the == 'undefined' test
ReadDataFromStorageNoUndefined(ls, key) ==
  LET v == getItem(ls, key)
  IN IF v = NullItem \/ v = EmptyString THEN NullItem ELSE v

\* lines 54-57: let dataFromStorage = getItem(storageKey), normalised to null
ReadDataFromStorage(ls, key) ==
  LET v == getItem(ls, key)
  IN IF v = NullItem \/ v = EmptyString \/ v = UndefinedString
     THEN NullItem ELSE v

\* the state the composer builds from initialConfig.editorState
InitialEditorState(data) ==
  IF data.kind = "json" THEN [content |-> data.body, sel |-> 0]
  ELSE EmptyEditorState

\* onHtmlChange guarded by the wrong key
onHtmlChangeWrongGuard(ls, html) ==
  IF Truthy(storageKey) THEN setItem(ls, htmlStorageKey, html) ELSE ls

\* App: onHtmlChange={(html) => ...}
onHtmlChange(ls, html) ==
  IF Truthy(htmlStorageKey) THEN setItem(ls, htmlStorageKey, html) ELSE ls

\* App: onStateChange={(jsonString) => ...}
onStateChange(ls, jsonString) ==
  IF Truthy(storageKey) THEN setItem(ls, storageKey, jsonString) ELSE ls

\* the update listener with the two callbacks in the other order
UpdateListenerStateFirst(ls, es) ==
  onHtmlChange(onStateChange(ls, JSONstringify(es)), generateHtmlFromNodes(es))

\* OnChangePlugin: the update listener, HTML first and then the state
UpdateListener(ls, es) ==
  onStateChange(onHtmlChange(ls, generateHtmlFromNodes(es)), JSONstringify(es))

\* the function registerUpdateListener returns, kept without being used
UnregisterNotCalled(n) == n

\* the function registerUpdateListener returns, which the effect returns as
\* its cleanup: it removes the listener
Unregister(n) == n - 1

\* what one run of the update listener invokes: onHtmlChange, then onStateChange
ListenerCalls(cb) ==
  <<[fn |-> "onHtmlChange", cb |-> cb], [fn |-> "onStateChange", cb |-> cb]>>

\* the editor runs each of its n registered listeners
RECURSIVE Notify(_, _)
Notify(n, cb) ==
  IF n = 0 THEN <<>> ELSE ListenerCalls(cb) \o Notify(n - 1, cb)

StorageInit ==
  /\ page = "closed"
  /\ mounted = FALSE
  /\ callbacks = 0
  /\ captured = 0
  /\ invoked = <<>>
  /\ storageKey = Null
  /\ htmlStorageKey = Null
  /\ dataFromStorage = NullItem
  /\ editorState = EmptyEditorState
  /\ listeners = 0
  /\ \E k \in StorageKeys \ {""}, v \in {NullItem, UndefinedString} :
       localStorage = [x \in StorageKeys |-> IF x = k THEN v ELSE NullItem]

\* the page is opened with a query string: module evaluation and first render
LoadPage(sk, hk) ==
  /\ page = "closed"
  /\ page' = "open"
  /\ storageKey' = sk
  /\ htmlStorageKey' = hk
  /\ dataFromStorage' = ReadDataFromStorage(localStorage, sk)
  /\ editorState' = InitialEditorState(dataFromStorage')
  /\ listeners' = 0
  /\ mounted' = FALSE
  /\ callbacks' = 0
  /\ captured' = 0
  /\ invoked' = <<>>
  /\ UNCHANGED <<localStorage, nodeVars, resizeVars>>

\* OnChangePlugin's effect runs: editor.registerUpdateListener
RegisterUpdateListener ==
  /\ page = "open"
  /\ ~mounted
  /\ listeners = 0
  /\ listeners' = listeners + 1
  /\ mounted' = TRUE
  /\ captured' = callbacks
  /\ UNCHANGED <<page, storageKey, htmlStorageKey, dataFromStorage,
                 localStorage, editorState, callbacks, invoked,
                 nodeVars, resizeVars>>

\* App renders again with new inline callbacks: the dependencies of the
\* effect changed, so its cleanup runs and then the effect with the new props
Rerender ==
  /\ page = "open"
  /\ mounted
  /\ callbacks < MaxRenders
  /\ callbacks' = callbacks + 1
  /\ listeners' = Unregister(listeners) + 1
  /\ captured' = callbacks'
  /\ UNCHANGED <<page, storageKey, htmlStorageKey, dataFromStorage,
                 localStorage, editorState, mounted, invoked,
                 nodeVars, resizeVars>>

\* OnChangePlugin unmounts: the cleanup of its effect runs
Unmount ==
  /\ page = "open"
  /\ mounted
  /\ mounted' = FALSE
  /\ listeners' = Unregister(listeners)
  /\ UNCHANGED <<page, storageKey, htmlStorageKey, dataFromStorage,
                 localStorage, editorState, callbacks, captured, invoked,
                 nodeVars, resizeVars>>

\* the editor commits an update and notifies its update listeners
EditorUpdate(es) ==
  /\ page = "open"
  /\ es # editorState
  /\ editorState' = es
  /\ localStorage' = IF listeners > 0 THEN UpdateListener(localStorage, es)
                     ELSE localStorage
  /\ invoked' = Notify(listeners, captured)
  /\ UNCHANGED <<page, storageKey, htmlStorageKey, dataFromStorage,
                 listeners, mounted, callbacks, captured,
                 nodeVars, resizeVars>>

\* the page is closed; localStorage outlives it
ClosePage ==
  /\ page = "open"
  /\ page' = "closed"
  /\ storageKey' = Null
  /\ htmlStorageKey' = Null
  /\ dataFromStorage' = NullItem
  /\ editorState' = EmptyEditorState
  /\ listeners' = 0
  /\ mounted' = FALSE
  /\ callbacks' = 0
  /\ captured' = 0
  /\ invoked' = <<>>
  /\ UNCHANGED <<localStorage, nodeVars, resizeVars>>

NextStorage ==
  \/ \E sk \in ParamValues, hk \in ParamValues : LoadPage(sk, hk)
  \/ RegisterUpdateListener
  \/ Rerender
  \/ Unmount
  \/ \E es \in EditorStates : EditorUpdate(es)
  \/ ClosePage

----------------------------------------------------------------------------
(* Specifications *)

InitNode == NodeInit /\ ResizeInit /\ StorageInit /\ localStorage = [x \in StorageKeys |-> NullItem]
InitResize == NodeIdle /\ ResizeInit /\ StorageInit /\ localStorage = [x \in StorageKeys |-> NullItem]
InitStorage == NodeIdle /\ ResizeInit /\ StorageInit

SpecNode == InitNode /\ [][NextNode]_vars
SpecResize == InitResize /\ [][NextResize]_vars
SpecStorage == InitStorage /\ [][NextStorage]_vars

----------------------------------------------------------------------------
(* Properties of ImageNode (SpecNode) *)

\* C1: the decorator mirrors node state: the element decorate() returned for
\* the current node carries the node's src, altText, width, height, maxWidth,
\* key, showCaption, imgRounded, imgZoomable, caption, captionsEnabled, title
\* and className, and resizable = true, whatever setters ran before.
C1_DecoratorMirrorsNode ==
  rendered # Undefined =>
    LET r == rendered[1]
    IN /\ r.src = node.src
       /\ r.altText = node.altText
       /\ r.width = node.width
       /\ r.height = node.height
       /\ r.maxWidth = node.maxWidth
       /\ r.nodeKey = node.key
       /\ r.showCaption = node.showCaption
       /\ r.imgRounded = node.imgRounded
       /\ r.imgZoomable = node.imgZoomable
       /\ r.caption = node.caption
       /\ r.captionsEnabled = node.captionsEnabled
       /\ r.title = node.title
       /\ r.className = node.className
       /\ r.resizable = TRUE

\* C1 witness: decorate() ran on a node whose size was last written by
\* setWidthAndHeight(0, MaxDim) and whose three flags are set.
C1_Witness ==
  /\ rendered # Undefined
  /\ node.width = 0
  /\ node.height = MaxDim
  /\ node.showCaption
  /\ node.imgRounded /\ ~node.imgZoomable

\* The fields the JSON round trip is said to keep, given how width and height
\* are expected to come back.
RoundTripKeeps(n, m, width, height) ==
  /\ m.src = n.src
  /\ m.altText = n.altText
  /\ m.maxWidth = n.maxWidth
  /\ m.showCaption = n.showCaption
  /\ m.imgRounded = n.imgRounded
  /\ m.imgZoomable = n.imgZoomable
  /\ m.width = width
  /\ m.height = height
  /\ m.title = (IF n.title = Undefined THEN Some("") ELSE n.title)
  /\ m.className = (IF n.className = Undefined THEN Some("") ELSE n.className)

\* C6 as stated: importJSON(exportJSON(n)) has n's src, altText, maxWidth,
\* showCaption, imgRounded, imgZoomable, width and height, and n's title and
\* className with undefined read back as ''.
C6_RoundTripAsStated ==
  serialized # Undefined =>
    RoundTripKeeps(node, importJSON(serialized[1]), node.width, node.height)

\* C6 amended: as above, except that a numeric width or height of 0 (set by
\* setWidthAndHeight) is read back as 'inherit'.
C6_RoundTripAmended ==
  serialized # Undefined =>
    RoundTripKeeps(node, importJSON(serialized[1]),
                   IF node.width = 0 THEN Inherit ELSE node.width,
                   IF node.height = 0 THEN Inherit ELSE node.height)

\* C6 witness: exportJSON ran on a node with a numeric 0 width, an 'inherit'
\* height, no title and a class name.
C6_Witness ==
  /\ serialized # Undefined
  /\ node.width = 0
  /\ node.height = Inherit
  /\ serialized[1].height = 0
  /\ node.title = Undefined
  /\ node.className = Some("c")
  /\ node.imgZoomable

\* C7: a node whose captions are disabled keeps them disabled across every
\* clone, exportJSON and importJSON (and every other step on the node).
C7_CaptionsStayDisabled ==
  [][node.captionsEnabled = FALSE => node'.captionsEnabled = FALSE]_vars

\* C8: the img element exportDOM() returned for the current node has
\* data-rounded "1" exactly when imgRounded and "0" otherwise, data-zoomable
\* "1" exactly when imgZoomable and "0" otherwise, and title and class equal
\* to the node's title and className, or '' when unset.
C8_ExportDOMFlags ==
  element # Undefined =>
    LET e == element[1]
    IN /\ (e.dataRounded = "1") = node.imgRounded
       /\ (e.dataRounded = "0") = ~node.imgRounded
       /\ (e.dataZoomable = "1") = node.imgZoomable
       /\ (e.dataZoomable = "0") = ~node.imgZoomable
       /\ e.title = (IF node.title = Undefined THEN "" ELSE node.title[1])
       /\ e.class = (IF node.className = Undefined THEN "" ELSE node.className[1])

\* C8 witness: exportDOM() ran on a rounded, non-zoomable node without title
\* and with a class name.
C8_Witness ==
  /\ element # Undefined
  /\ node.imgRounded /\ ~node.imgZoomable
  /\ node.title = Undefined
  /\ node.className = Some("c")

----------------------------------------------------------------------------
(* Properties of ImageComponent (SpecResize) *)

\* C9: isResizing is true at every moment of a resize gesture (between
\* onResizeStart and its onResizeEnd), and it turns false only when the timer
\* of the most recent onResizeEnd expires (no gesture running, no later timer
\* pending).
C9_ResizingCoversGesture ==
  [][ /\ (gesture' => isResizing')
      /\ (isResizing /\ ~isResizing' => ~gesture /\ timers = 1) ]_vars

\* C10: while isResizing is true the click handler reports every
\* CLICK_COMMAND and RIGHT_CLICK_IMAGE_COMMAND as handled and leaves the
\* selection as it was, whatever the target and the shift key.
C10_ClicksSwallowedWhileResizing ==
  [][ click.returned = "pending" /\ isResizing =>
        click'.returned = "true" /\ selection' = selection ]_vars

\* C10 witness: in the 200 ms after a resize ended, a shift-less click on the
\* image itself was reported handled while the image stayed unselected.
C10_Witness ==
  /\ isResizing /\ ~gesture /\ timers > 0
  /\ click.returned = "true"
  /\ click.target = "image"
  /\ ~isSelected

----------------------------------------------------------------------------
(* Properties of the persistence (SpecStorage) *)

SessionStep == page = "open" /\ page' = "open"
UpdateStep == SessionStep /\ editorState' # editorState

\* C2: with a non-empty storageKey and the plugin's listener registered,
\* every editor update leaves JSON.stringify of the new editor state under
\* storageKey, and no other step of the session touches that entry.
C2_StatePersisted ==
  [][ SessionStep /\ listeners > 0 /\ Truthy(storageKey) =>
        IF editorState' # editorState
        THEN localStorage'[storageKey[1]] = JSONstringify(editorState')
        ELSE localStorage'[storageKey[1]] = localStorage[storageKey[1]] ]_vars

\* C2 witness: both parameters name the same key, and the entry holds the
\* serialization of the current, non-empty editor state, written this session.
C2_Witness ==
  /\ page = "open" /\ listeners > 0
  /\ Truthy(storageKey) /\ htmlStorageKey = storageKey
  /\ editorState.content # 0
  /\ localStorage[storageKey[1]] = JSONstringify(editorState)
  /\ dataFromStorage # JSONstringify(editorState)

\* C3 as stated: with a non-empty htmlStorageKey and the listener registered,
\* every editor update leaves the HTML of the new editor state under
\* htmlStorageKey, whatever storageKey is.
C3_HtmlPersistedAsStated ==
  [][ UpdateStep /\ listeners > 0 /\ Truthy(htmlStorageKey) =>
        localStorage'[htmlStorageKey[1]] = generateHtmlFromNodes(editorState') ]_vars

\* C3 amended: the same, provided storageKey is not the same non-empty key.
C3_HtmlPersistedAmended ==
  [][ UpdateStep /\ listeners > 0 /\ Truthy(htmlStorageKey)
        /\ htmlStorageKey # storageKey =>
        localStorage'[htmlStorageKey[1]] = generateHtmlFromNodes(editorState') ]_vars

\* C3 witness: two different non-empty keys, and the HTML entry holds the
\* HTML of the current, non-empty editor state next to its serialization.
C3_Witness ==
  /\ page = "open" /\ listeners > 0
  /\ Truthy(htmlStorageKey) /\ Truthy(storageKey)
  /\ htmlStorageKey # storageKey
  /\ editorState.content # 0
  /\ localStorage[htmlStorageKey[1]] = generateHtmlFromNodes(editorState)
  /\ localStorage[storageKey[1]] = JSONstringify(editorState)

\* C4: at load the composer's initial editor state is the string stored
\* under storageKey, or null when that entry is missing, '' or 'undefined';
\* no later step of the session changes it.
C4_InitialStateFromStorage ==
  [][ /\ (page = "closed" /\ page' = "open" =>
            LET stored == localStorage[KeyString(storageKey')]
            IN dataFromStorage' =
                 (IF stored \in {NullItem, EmptyString, UndefinedString}
                  THEN NullItem ELSE stored))
      /\ (SessionStep => dataFromStorage' = dataFromStorage) ]_vars

\* C4 witness: the session started from a serialized state written by an
\* earlier session, and the entry has been overwritten since.
C4_Witness ==
  /\ page = "open"
  /\ Truthy(storageKey)
  /\ dataFromStorage.kind = "json"
  /\ localStorage[storageKey[1]].kind = "json"
  /\ localStorage[storageKey[1]] # dataFromStorage

\* C5: without a storageKey parameter the session starts from no stored
\* content and no update writes a serialized state to any entry; without an
\* htmlStorageKey parameter no update writes HTML to any entry.
C5_AbsentKeyDisablesPersistence ==
  [][ /\ (page' = "open" /\ storageKey' = Null => dataFromStorage' = NullItem)
      /\ (SessionStep /\ storageKey = Null =>
            \A k \in StorageKeys :
              localStorage'[k] # localStorage[k] => localStorage'[k].kind # "json")
      /\ (SessionStep /\ htmlStorageKey = Null =>
            \A k \in StorageKeys :
              localStorage'[k] # localStorage[k] =>
                localStorage'[k].kind \notin {"html", "empty"}) ]_vars

\* C11: while OnChangePlugin is mounted exactly one update listener is
\* registered, however often App re-rendered with new callbacks; an editor
\* update invokes the callbacks of the current render only, onHtmlChange at
\* most once and onStateChange at most once, onHtmlChange first; and while
\* the plugin is not mounted no step of the session writes to localStorage.
C11_ListenerRegisteredOnce ==
  [][ /\ (mounted' => listeners' = 1)
      /\ (UpdateStep =>
            LET html == [fn |-> "onHtmlChange", cb |-> callbacks]
                state == [fn |-> "onStateChange", cb |-> callbacks]
            IN invoked' \in {<<>>, <<html>>, <<state>>, <<html, state>>})
      /\ (SessionStep /\ ~mounted => localStorage' = localStorage) ]_vars

\* C11 witness: after MaxRenders re-renders one listener is registered, and
\* the last update invoked the callbacks of the latest render, onHtmlChange
\* and then onStateChange, which wrote both entries.
C11_Witness ==
  /\ page = "open" /\ mounted
  /\ callbacks = MaxRenders
  /\ listeners = 1
  /\ invoked = ListenerCalls(callbacks)
  /\ Truthy(storageKey) /\ Truthy(htmlStorageKey) /\ storageKey # htmlStorageKey
  /\ editorState.content # 0
  /\ localStorage[htmlStorageKey[1]] = generateHtmlFromNodes(editorState)
  /\ localStorage[storageKey[1]] = JSONstringify(editorState)

====
